---- MODULE Spec2Model ----
(***************************************************************************)
(* The get_tablesource endpoint binding of the Malloy Publisher Python     *)
(* SDK (malloy_publisher_sdk/api/connections/get_tablesource.py).          *)
(*                                                                         *)
(* A "call" is one invocation of one of the four entry points              *)
(* sync_detailed, sync, asyncio_detailed, asyncio on one shared, injected  *)
(* client.  The transport (httpx) is the environment: it answers a request *)
(* with a response or with a failure.                                      *)
(***************************************************************************)
EXTENDS Integers, Sequences, FiniteSets, TLC

VARIABLES
  client,     \* the injected client: its configuration
  pc,         \* per call: "idle", "awaiting" (suspended in await), "done"
  entry,      \* per call: the entry point invoked
  args,       \* per call: the arguments it was invoked with
  kwargs,     \* per call: the local variable kwargs (the request descriptor)
  requests,   \* per call: the requests it issued on the client's httpx client
  delivered,  \* per call: what the transport handed back to it
  decodes,    \* per call: the decoding steps it ran, in order
  outcome     \* per call: what it returned or raised

vars == <<client, pc, entry, args, kwargs, requests, delivered, decodes, outcome>>

\* Number of calls made on the shared client.
NumCalls == 2

Calls == 1..NumCalls

----------------------------------------------------------------------------
\* Values

\* types.UNSET, Python's None and a str value, as tagged values.
UNSET == [tag |-> "Unset", s |-> ""]

None == [tag |-> "None", s |-> ""]

Str(x) == [tag |-> "str", s |-> x]

\* Members of http.HTTPStatus (Python 3.9 and later, where 418 is a member):
\* HTTPStatus(n) raises ValueError for any other n.
HTTPStatusMembers ==
  {100, 101, 102, 103} \cup (200..208) \cup {226} \cup (300..305) \cup {307, 308}
  \cup (400..418) \cup (421..426) \cup {428, 429, 431, 451}
  \cup (500..508) \cup {510, 511}

\* Response bodies: a JSON object, a JSON document that is no object, no JSON.
JsonObjectBody == "{\"k\":\"v\"}"

JsonArrayBody == "[1]"

HtmlBody == "<html>"

Bodies == {JsonObjectBody, JsonArrayBody, HtmlBody}

Headers == "content-type: x"

NoValue == [type |-> "NoValue"]

NoExc == [type |-> "NoExc"]

\* Inputs of the single-call specification.
AllArgs ==
  [project_name : {"proj1", "a/b", "{connection_name}"},
   connection_name : {"conn1", "c d"},
   table_key : {UNSET, None, Str(""), Str("k1")},
   table_path : {UNSET, None, Str(""), Str("a.b")}]

AllStatuses == {200, 401, 404, 500, 204, 418, 299, 600}

TransportOk(status, body) ==
  [kind |-> "response",
   response |-> [status_code |-> status, content |-> body, headers |-> Headers],
   exc |-> NoExc]

TransportFails(e) ==
  [kind |-> "error",
   response |-> [status_code |-> 0, content |-> "", headers |-> ""],
   exc |-> [type |-> e]]

AllOutcomes ==
  {TransportOk(s, b) : s \in AllStatuses, b \in Bodies}
  \cup {TransportFails("httpx.ConnectError"), TransportFails("httpx.TimeoutException")}

\* Inputs of the concurrent specification: one of each class.
ArgSamples ==
  {[project_name |-> "proj1", connection_name |-> "conn1",
    table_key |-> UNSET, table_path |-> UNSET],
   [project_name |-> "a/b", connection_name |-> "c d",
    table_key |-> Str("k1"), table_path |-> Str("a.b")]}

OutcomeSamples ==
  {TransportOk(200, JsonObjectBody), TransportOk(200, HtmlBody),
   TransportOk(404, JsonObjectBody), TransportOk(418, JsonObjectBody),
   TransportOk(299, JsonObjectBody), TransportFails("httpx.TimeoutException")}

NoArgs ==
  [project_name |-> "", connection_name |-> "", table_key |-> UNSET, table_path |-> UNSET]

NoKwargs == [method |-> "", url |-> "", params |-> <<>>]

NoDelivery == [kind |-> "none",
               response |-> [status_code |-> 0, content |-> "", headers |-> ""],
               exc |-> NoExc]

Pending == [kind |-> "pending", value |-> NoValue, exc |-> NoExc]

----------------------------------------------------------------------------
\* Results of the functions: a returned value or a raised exception, with the
\* decoding steps that ran.

Return(v, steps) == [kind |-> "return", value |-> v, exc |-> NoExc, steps |-> steps]

Raise(e, steps) == [kind |-> "raise", value |-> NoValue, exc |-> e, steps |-> steps]

\* Python's None as a parsed payload.
NoneValue == [type |-> "None"]

UnexpectedStatus(status_code, content) ==
  [type |-> "UnexpectedStatus", status_code |-> status_code, content |-> content]

\* httpx.Response.json(): the body parsed as JSON, or json's decode error.
response_json(response) ==
  IF response.content \in {JsonObjectBody, JsonArrayBody}
  THEN Return([type |-> IF response.content = JsonObjectBody THEN "dict" ELSE "list",
               text |-> response.content], <<"response.json">>)
  ELSE Raise([type |-> "JSONDecodeError", content |-> response.content],
             <<"response.json">>)

\* The model decoders: a key-value body becomes a typed record; any other
\* document is a schema mismatch.
TableSource_from_dict(d) ==
  IF d.type = "dict"
  THEN Return([type |-> "TableSource", src_dict |-> d.text], <<"TableSource.from_dict">>)
  ELSE Raise([type |-> "DecodingError", decoder |-> "TableSource.from_dict"],
             <<"TableSource.from_dict">>)

Error_from_dict(d) ==
  IF d.type = "dict"
  THEN Return([type |-> "Error", src_dict |-> d.text], <<"Error.from_dict">>)
  ELSE Raise([type |-> "DecodingError", decoder |-> "Error.from_dict"],
             <<"Error.from_dict">>)

\* X.from_dict(response.json()): the argument is evaluated first.
DecodeTableSource(response) ==
  LET j == response_json(response)
  IN IF j.kind = "raise" THEN j
     ELSE LET r == TableSource_from_dict(j.value)
          IN [r EXCEPT !.steps = j.steps \o r.steps]

DecodeError(response) ==
  LET j == response_json(response)
  IN IF j.kind = "raise" THEN j
     ELSE LET r == Error_from_dict(j.value)
          IN [r EXCEPT !.steps = j.steps \o r.steps]

----------------------------------------------------------------------------
\* _get_kwargs

Lit(x) == [lit |-> x, field |-> ""]

Field(x) == [lit |-> "", field |-> x]

\* The format string of the url, split at its replacement fields.
UrlTemplate ==
  <<Lit("/projects/"), Field("project_name"), Lit("/connections/"),
    Field("connection_name"), Lit("/tableSource")>>

\* A variant that writes the two names in the wrong fields.
RECURSIVE FormatSwapped(_, _)
FormatSwapped(tpl, binding) ==
  IF tpl = <<>> THEN ""
  ELSE (IF Head(tpl).field = "" THEN Head(tpl).lit
        ELSE IF Head(tpl).field = "project_name" THEN binding["connection_name"]
        ELSE binding["project_name"])
       \o FormatSwapped(Tail(tpl), binding)

\* str.format with keyword arguments: literal text is copied, each field is
\* replaced by the value bound to it; the value is not scanned again.
RECURSIVE Format(_, _)
Format(tpl, binding) ==
  IF tpl = <<>> THEN ""
  ELSE (IF Head(tpl).field = "" THEN Head(tpl).lit ELSE binding[Head(tpl).field])
       \o Format(Tail(tpl), binding)

ParamKeys == {"tableKey", "tablePath"}

\* A variant without the filtering of line 26.
get_kwargs_unfiltered(project_name, connection_name, table_key, table_path) ==
  [method |-> "get",
   url |-> Format(UrlTemplate, [project_name |-> project_name,
                                connection_name |-> connection_name]),
   params |-> [k \in ParamKeys |-> IF k = "tableKey" THEN table_key ELSE table_path]]

_get_kwargs(project_name, connection_name, table_key, table_path) ==
  LET params0 == [k \in ParamKeys |-> IF k = "tableKey" THEN table_key ELSE table_path]
      params == [k \in {x \in ParamKeys : params0[x] # UNSET /\ params0[x] # None}
                   |-> params0[k]]
  IN [method |-> "get",
      url |-> Format(UrlTemplate, [project_name |-> project_name,
                                   connection_name |-> connection_name]),
      params |-> params]

----------------------------------------------------------------------------
\* _parse_response and _build_response

\* A variant in which 404 has no branch of its own.
parse_response_without_404(cl, response) ==
  IF response.status_code = 200 THEN DecodeTableSource(response)
  ELSE IF response.status_code = 401 THEN DecodeError(response)
  ELSE IF response.status_code = 500 THEN DecodeError(response)
  ELSE IF cl.raise_on_unexpected_status
       THEN Raise(UnexpectedStatus(response.status_code, response.content), <<>>)
       ELSE Return(NoneValue, <<>>)

\* A variant that recovers from a decoding failure with an absent payload.
parse_response_recovering(cl, response) ==
  LET r == IF response.status_code = 200 THEN DecodeTableSource(response)
           ELSE DecodeError(response)
  IN IF response.status_code \in {200, 401, 404, 500}
     THEN (IF r.kind = "raise" THEN Return(NoneValue, r.steps) ELSE r)
     ELSE IF cl.raise_on_unexpected_status
          THEN Raise(UnexpectedStatus(response.status_code, response.content), <<>>)
          ELSE Return(NoneValue, <<>>)

_parse_response(cl, response) ==
  IF response.status_code = 200 THEN DecodeTableSource(response)
  ELSE IF response.status_code = 401 THEN DecodeError(response)
  ELSE IF response.status_code = 404 THEN DecodeError(response)
  ELSE IF response.status_code = 500 THEN DecodeError(response)
  ELSE IF cl.raise_on_unexpected_status
       THEN Raise(UnexpectedStatus(response.status_code, response.content), <<>>)
       ELSE Return(NoneValue, <<>>)

\* HTTPStatus(n): the member with value n, or ValueError.
HTTPStatus(n) ==
  IF n \in HTTPStatusMembers
  THEN Return([type |-> "HTTPStatus", value |-> n], <<>>)
  ELSE Raise([type |-> "ValueError", value |-> n], <<>>)

\* types.Response, the envelope.
Response(status_code, content, headers, parsed) ==
  [type |-> "Response", status_code |-> status_code, content |-> content,
   headers |-> headers, parsed |-> parsed]

\* A variant that evaluates parsed= before status_code=.
build_response_parse_first(cl, response) ==
  LET p == _parse_response(cl, response)
      sc == HTTPStatus(response.status_code)
  IN IF p.kind = "raise" THEN p
     ELSE IF sc.kind = "raise" THEN [sc EXCEPT !.steps = p.steps]
     ELSE Return(Response(sc.value, response.content, response.headers, p.value), p.steps)

\* The keyword arguments of Response(...) are evaluated in the order written:
\* status_code (line 69) before parsed (line 72).
_build_response(cl, response) ==
  LET sc == HTTPStatus(response.status_code)
  IN IF sc.kind = "raise" THEN sc
     ELSE LET p == _parse_response(cl, response)
          IN IF p.kind = "raise" THEN p
             ELSE Return(Response(sc.value, response.content, response.headers, p.value),
                         p.steps)

----------------------------------------------------------------------------
\* The entry points.  Each is given the arguments a and the answer t of the
\* transport to the request it issues, and yields its result together with
\* its local kwargs and the requests it issued (sent).

Request(via, kw) == [via |-> via, kwargs |-> kw]

Effects(r, kw, sent) ==
  [kind |-> r.kind, value |-> r.value, exc |-> r.exc, steps |-> r.steps,
   kwargs |-> kw, sent |-> sent]

\* A variant that repeats the request once when the transport fails.
sync_detailed_retrying(cl, a, t) ==
  LET kw == _get_kwargs(a.project_name, a.connection_name, a.table_key, a.table_path)
      rq == Request("httpx.Client", kw)
  IN IF t.kind = "error"
     THEN Effects(Raise(t.exc, <<>>), kw, <<rq, rq>>)
     ELSE Effects(_build_response(cl, t.response), kw, <<rq>>)

sync_detailed(cl, a, t) ==
  LET kw == _get_kwargs(a.project_name, a.connection_name, a.table_key, a.table_path)
      rq == Request("httpx.Client", kw)
  IN IF t.kind = "error"
     THEN Effects(Raise(t.exc, <<>>), kw, <<rq>>)
     ELSE Effects(_build_response(cl, t.response), kw, <<rq>>)

\* A variant that returns the envelope instead of its parsed attribute.
sync_returning_envelope(cl, a, t) == sync_detailed(cl, a, t)

\* sync_detailed(...).parsed
sync(cl, a, t) ==
  LET r == sync_detailed(cl, a, t)
  IN IF r.kind = "raise" THEN r ELSE [r EXCEPT !.value = r.value.parsed]

\* A variant that leaves the query parameters out of the request.
asyncio_detailed_request_without_params(a) ==
  LET kw == [_get_kwargs(a.project_name, a.connection_name, a.table_key, a.table_path)
               EXCEPT !.params = <<>>]
  IN [kwargs |-> kw, sent |-> <<Request("httpx.AsyncClient", kw)>>]

\* asyncio_detailed up to its await: kwargs is built and the request issued.
asyncio_detailed_request(a) ==
  LET kw == _get_kwargs(a.project_name, a.connection_name, a.table_key, a.table_path)
  IN [kwargs |-> kw, sent |-> <<Request("httpx.AsyncClient", kw)>>]

\* asyncio_detailed from its await on: the awaited request raises or yields
\* the response, which _build_response turns into the result.
asyncio_detailed_resume(cl, t) ==
  IF t.kind = "error" THEN Raise(t.exc, <<>>) ELSE _build_response(cl, t.response)

\* asyncio up to the await inside asyncio_detailed.
asyncio_request(a) == asyncio_detailed_request(a)

\* (await asyncio_detailed(...)).parsed
asyncio_resume(cl, t) ==
  LET r == asyncio_detailed_resume(cl, t)
  IN IF r.kind = "raise" THEN r ELSE [r EXCEPT !.value = r.value.parsed]

\* A variant in which kwargs is one module-level variable shared by all calls.
SetSharedKwargs(kws, c, kw) == [d \in DOMAIN kws |-> kw]

\* kwargs is a local variable of the call's own frame.
SetKwargs(kws, c, kw) == [kws EXCEPT ![c] = kw]

----------------------------------------------------------------------------
\* Actions

Init ==
  /\ client \in [raise_on_unexpected_status : BOOLEAN]
  /\ pc = [c \in Calls |-> "idle"]
  /\ entry = [c \in Calls |-> "none"]
  /\ args = [c \in Calls |-> NoArgs]
  /\ kwargs = [c \in Calls |-> NoKwargs]
  /\ requests = [c \in Calls |-> <<>>]
  /\ delivered = [c \in Calls |-> NoDelivery]
  /\ decodes = [c \in Calls |-> <<>>]
  /\ outcome = [c \in Calls |-> Pending]

Finish(c, r, t) ==
  /\ delivered' = [delivered EXCEPT ![c] = t]
  /\ decodes' = [decodes EXCEPT ![c] = r.steps]
  /\ outcome' = [outcome EXCEPT ![c] = [kind |-> r.kind, value |-> r.value, exc |-> r.exc]]
  /\ pc' = [pc EXCEPT ![c] = "done"]

\* A synchronous call runs from invocation to return without yielding.
SyncDetailed(c, A, T) ==
  /\ pc[c] = "idle"
  /\ \E a \in A, t \in T :
       LET r == sync_detailed(client, a, t)
       IN /\ entry' = [entry EXCEPT ![c] = "sync_detailed"]
          /\ args' = [args EXCEPT ![c] = a]
          /\ kwargs' = SetKwargs(kwargs, c, r.kwargs)
          /\ requests' = [requests EXCEPT ![c] = @ \o r.sent]
          /\ Finish(c, r, t)
  /\ UNCHANGED client

Sync(c, A, T) ==
  /\ pc[c] = "idle"
  /\ \E a \in A, t \in T :
       LET r == sync(client, a, t)
       IN /\ entry' = [entry EXCEPT ![c] = "sync"]
          /\ args' = [args EXCEPT ![c] = a]
          /\ kwargs' = SetKwargs(kwargs, c, r.kwargs)
          /\ requests' = [requests EXCEPT ![c] = @ \o r.sent]
          /\ Finish(c, r, t)
  /\ UNCHANGED client

\* An asynchronous call runs to its await, and is resumed with the answer.
AsyncioDetailedStart(c, A) ==
  /\ pc[c] = "idle"
  /\ \E a \in A :
       LET s == asyncio_detailed_request(a)
       IN /\ entry' = [entry EXCEPT ![c] = "asyncio_detailed"]
          /\ args' = [args EXCEPT ![c] = a]
          /\ kwargs' = SetKwargs(kwargs, c, s.kwargs)
          /\ requests' = [requests EXCEPT ![c] = @ \o s.sent]
  /\ pc' = [pc EXCEPT ![c] = "awaiting"]
  /\ UNCHANGED <<client, delivered, decodes, outcome>>

AsyncioDetailedResume(c, T) ==
  /\ pc[c] = "awaiting"
  /\ entry[c] = "asyncio_detailed"
  /\ \E t \in T : Finish(c, asyncio_detailed_resume(client, t), t)
  /\ UNCHANGED <<client, entry, args, kwargs, requests>>

AsyncioStart(c, A) ==
  /\ pc[c] = "idle"
  /\ \E a \in A :
       LET s == asyncio_request(a)
       IN /\ entry' = [entry EXCEPT ![c] = "asyncio"]
          /\ args' = [args EXCEPT ![c] = a]
          /\ kwargs' = SetKwargs(kwargs, c, s.kwargs)
          /\ requests' = [requests EXCEPT ![c] = @ \o s.sent]
  /\ pc' = [pc EXCEPT ![c] = "awaiting"]
  /\ UNCHANGED <<client, delivered, decodes, outcome>>

AsyncioResume(c, T) ==
  /\ pc[c] = "awaiting"
  /\ entry[c] = "asyncio"
  /\ \E t \in T : Finish(c, asyncio_resume(client, t), t)
  /\ UNCHANGED <<client, entry, args, kwargs, requests>>

\* Concurrent calls on one client.
Next ==
  \E c \in Calls :
    \/ SyncDetailed(c, ArgSamples, OutcomeSamples)
    \/ Sync(c, ArgSamples, OutcomeSamples)
    \/ AsyncioDetailedStart(c, ArgSamples)
    \/ AsyncioDetailedResume(c, OutcomeSamples)
    \/ AsyncioStart(c, ArgSamples)
    \/ AsyncioResume(c, OutcomeSamples)

Spec == Init /\ [][Next]_vars

\* One call, over all inputs.
NextOne ==
  \/ SyncDetailed(1, AllArgs, AllOutcomes)
  \/ Sync(1, AllArgs, AllOutcomes)
  \/ AsyncioDetailedStart(1, AllArgs)
  \/ AsyncioDetailedResume(1, AllOutcomes)
  \/ AsyncioStart(1, AllArgs)
  \/ AsyncioResume(1, AllOutcomes)

SpecOne == Init /\ [][NextOne]_vars

----------------------------------------------------------------------------
\* Vocabulary of the properties

MappedStatuses == {200, 401, 404, 500}

Answered(c) == pc[c] = "done" /\ delivered[c].kind = "response"

Got(c) == delivered[c].response

IsDetailed(c) == entry[c] \in {"sync_detailed", "asyncio_detailed"}

Returned(c, v) == outcome[c] = [kind |-> "return", value |-> v, exc |-> NoExc]

Raised(c, e) == outcome[c] = [kind |-> "raise", value |-> NoValue, exc |-> e]

\* The envelope of the response call c got, around the payload p.
EnvelopeOf(c, p) ==
  [type |-> "Response",
   status_code |-> [type |-> "HTTPStatus", value |-> Got(c).status_code],
   content |-> Got(c).content, headers |-> Got(c).headers, parsed |-> p]

\* The detailed forms return the envelope, the plain forms the payload.
ReturnedPayload(c, p) ==
  IF IsDetailed(c) THEN Returned(c, EnvelopeOf(c, p)) ELSE Returned(c, p)

PayloadType(status) == IF status = 200 THEN "TableSource" ELSE "Error"

UrlOf(a) ==
  "/projects/" \o a.project_name \o "/connections/" \o a.connection_name \o "/tableSource"

----------------------------------------------------------------------------
\* C1: for a delivered response with status 200, 401, 404 or 500 the status
\* alone selects the decoder (TableSource for 200, Error for the others); a
\* body the decoder accepts is returned decoded, as a value (in the envelope
\* for the detailed forms), and the call never raises UnexpectedStatus; none
\* of this depends on raise_on_unexpected_status.
C1_StatusDecidesPayload ==
  \A c \in Calls :
    (Answered(c) /\ Got(c).status_code \in MappedStatuses) =>
      LET want == PayloadType(Got(c).status_code)
      IN /\ decodes[c] \in {<<"response.json">>,
                            <<"response.json", want \o ".from_dict">>}
         /\ outcome[c].exc.type # "UnexpectedStatus"
         /\ Got(c).content = JsonObjectBody =>
              ReturnedPayload(c, [type |-> want, src_dict |-> Got(c).content])
         /\ outcome[c].kind = "return" => Got(c).content = JsonObjectBody

C1_Witness ==
  \E c \in Calls :
    /\ Answered(c) /\ Got(c).status_code = 404 /\ client.raise_on_unexpected_status
    /\ entry[c] = "sync_detailed"
    /\ outcome[c].kind = "return" /\ outcome[c].value.parsed.type = "Error"

\* C2: for a delivered response with any status other than 200, 401, 404, 500,
\* every entry point raises UnexpectedStatus(status, body) when the client
\* raises on unexpected status, and otherwise returns an absent payload (in
\* the envelope for the detailed forms).
C2_AnyOtherStatus ==
  \A c \in Calls :
    (Answered(c) /\ Got(c).status_code \notin MappedStatuses) =>
      IF client.raise_on_unexpected_status
      THEN Raised(c, [type |-> "UnexpectedStatus", status_code |-> Got(c).status_code,
                      content |-> Got(c).content])
      ELSE ReturnedPayload(c, [type |-> "None"])

\* C3: the query parameters of the request hold exactly the provided ones of
\* table_key and table_path, under the keys tableKey and tablePath, each with
\* the value given; an unset one contributes no key; both provided, both sent.
C3_QueryParams ==
  \A c \in Calls :
    (pc[c] # "idle" /\ requests[c] # <<>>) =>
      LET p == requests[c][1].kwargs.params
          a == args[c]
      IN /\ DOMAIN p \subseteq {"tableKey", "tablePath"}
         /\ a.table_key.tag = "str" => ("tableKey" \in DOMAIN p /\ p["tableKey"] = a.table_key)
         /\ a.table_path.tag = "str" =>
              ("tablePath" \in DOMAIN p /\ p["tablePath"] = a.table_path)
         /\ a.table_key = UNSET => "tableKey" \notin DOMAIN p
         /\ a.table_path = UNSET => "tablePath" \notin DOMAIN p

C3_Witness ==
  \E c \in Calls :
    /\ pc[c] # "idle" /\ requests[c] # <<>>
    /\ args[c].table_key = UNSET /\ args[c].table_path = Str("")
    /\ DOMAIN requests[c][1].kwargs.params = {"tablePath"}

\* C4: every call issues exactly one request on the client: one is issued as
\* soon as the call has started, and none is added whatever the outcome.
C4_ExactlyOneRequest ==
  \A c \in Calls :
    /\ pc[c] = "idle" => Len(requests[c]) = 0
    /\ pc[c] # "idle" => Len(requests[c]) = 1

C4_Witness ==
  \E c \in Calls :
    /\ pc[c] = "done" /\ delivered[c].kind = "error" /\ entry[c] = "sync_detailed"
    /\ Len(requests[c]) = 1

\* C5: a failure of the transport ends the call with that failure and no
\* decoding step; a body the decoder of a 200, 401, 404 or 500 response
\* rejects ends the call with the decoder's failure; for either value of
\* raise_on_unexpected_status.
C5_NoLocalRecovery ==
  \A c \in Calls :
    pc[c] = "done" =>
      /\ delivered[c].kind = "error" =>
           (Raised(c, delivered[c].exc) /\ decodes[c] = <<>>)
      /\ (Answered(c) /\ Got(c).status_code \in MappedStatuses) =>
           /\ Got(c).content = HtmlBody =>
                Raised(c, [type |-> "JSONDecodeError", content |-> HtmlBody])
           /\ Got(c).content = JsonArrayBody =>
                Raised(c, [type |-> "DecodingError",
                           decoder |-> PayloadType(Got(c).status_code) \o ".from_dict"])

C5_Witness ==
  \E c \in Calls :
    /\ Answered(c) /\ Got(c).status_code = 200 /\ Got(c).content = JsonArrayBody
    /\ ~client.raise_on_unexpected_status
    /\ outcome[c].kind = "raise" /\ outcome[c].exc.type = "DecodingError"

\* C6: a synchronous and an asynchronous call of the same form, with the same
\* arguments and the same answer of the transport, build the same request
\* descriptor and end with the same result or failure.
C6_SyncAsyncEquivalent ==
  \A c, d \in Calls :
    ( /\ pc[c] = "done" /\ pc[d] = "done"
      /\ \/ entry[c] = "sync_detailed" /\ entry[d] = "asyncio_detailed"
         \/ entry[c] = "sync" /\ entry[d] = "asyncio"
      /\ args[c] = args[d] /\ delivered[c] = delivered[d]
      /\ requests[c] # <<>> /\ requests[d] # <<>> ) =>
        /\ requests[c][1].kwargs = requests[d][1].kwargs
        /\ outcome[c] = outcome[d]

C6_Witness ==
  \E c, d \in Calls :
    /\ pc[c] = "done" /\ pc[d] = "done"
    /\ entry[c] = "sync_detailed" /\ entry[d] = "asyncio_detailed"
    /\ args[c] = args[d] /\ delivered[c] = delivered[d]
    /\ args[c].table_key = Str("k1")
    /\ Answered(c) /\ Got(c).status_code = 404 /\ outcome[c].kind = "return"

\* C7: calls sharing the client do not affect each other: a call is suspended
\* only between issuing its request and getting its answer; a step of one call
\* leaves the client and every other call's variables as they were; and two
\* calls of the same entry point with the same arguments and answer have the
\* same request descriptor and result, however they were interleaved.
C7_CallState(c) ==
  <<entry[c], args[c], kwargs[c], requests[c], delivered[c], decodes[c], outcome[c]>>

C7_StatePart ==
  /\ \A c \in Calls :
       /\ pc[c] = "awaiting" =>
            /\ entry[c] \in {"asyncio_detailed", "asyncio"}
            /\ Len(requests[c]) = 1 /\ delivered[c] = NoDelivery
       /\ (pc[c] # "idle" /\ requests[c] # <<>>) => kwargs[c] = requests[c][1].kwargs
  /\ \A c, d \in Calls :
       (pc[c] # "idle" /\ pc[d] # "idle" /\ args[c] = args[d]) =>
         /\ kwargs[c] = kwargs[d]
         /\ (pc[c] = "done" /\ pc[d] = "done" /\ entry[c] = entry[d]
             /\ delivered[c] = delivered[d]) => outcome[c] = outcome[d]

C7_StepPart ==
  /\ client' = client
  /\ \A c \in Calls :
       /\ pc'[c] = pc[c] => C7_CallState(c)' = C7_CallState(c)
       /\ pc[c] = "done" => pc'[c] = "done"

C7_Independence == [](C7_StatePart) /\ [][C7_StepPart]_vars

C7_Witness ==
  \E c, d \in Calls :
    /\ c # d /\ pc[c] = "awaiting" /\ pc[d] = "awaiting"
    /\ entry[c] = "asyncio_detailed" /\ entry[d] = "asyncio"
    /\ args[c] # args[d] /\ kwargs[c] # kwargs[d]

\* C8: a plain call ends as the detailed call of its mode does for the same
\* arguments and answer: it returns the parsed payload of that envelope, not
\* wrapped, or fails with the same failure; and it issues the same single
\* request and runs the same decoding steps, none of its own.
C8_PlainIsParsedOfDetailed ==
  \A c, d \in Calls :
    ( /\ pc[c] = "done" /\ pc[d] = "done"
      /\ \/ entry[c] = "sync" /\ entry[d] = "sync_detailed"
         \/ entry[c] = "asyncio" /\ entry[d] = "asyncio_detailed"
      /\ args[c] = args[d] /\ delivered[c] = delivered[d] ) =>
        /\ outcome[c] = IF outcome[d].kind = "raise" THEN outcome[d]
                        ELSE [outcome[d] EXCEPT !.value = @.parsed]
        /\ requests[c] = requests[d] /\ Len(requests[c]) = 1
        /\ decodes[c] = decodes[d]

C8_Witness ==
  \E c, d \in Calls :
    /\ pc[c] = "done" /\ pc[d] = "done"
    /\ entry[c] = "sync" /\ entry[d] = "sync_detailed"
    /\ args[c] = args[d] /\ delivered[c] = delivered[d]
    /\ Answered(c) /\ Got(c).status_code = 200
    /\ outcome[c].kind = "return" /\ outcome[c].value.type = "TableSource"

\* C9: the request has method get and the url /projects/<project_name>/
\* connections/<connection_name>/tableSource with the two names copied as
\* given; the url is the same whatever table_key and table_path are, and with
\* neither supplied there are no query parameters.
C9_RequestTarget ==
  \A c \in Calls :
    (pc[c] # "idle" /\ requests[c] # <<>>) =>
      LET kw == requests[c][1].kwargs
          a == args[c]
      IN /\ kw.method = "get"
         /\ kw.url = UrlOf(a)
         /\ (a.project_name = "proj1" /\ a.connection_name = "conn1") =>
              kw.url = "/projects/proj1/connections/conn1/tableSource"
         /\ (a.table_key = UNSET /\ a.table_path = UNSET) => DOMAIN kw.params = {}

C9_Witness ==
  \E c \in Calls :
    /\ pc[c] # "idle" /\ requests[c] # <<>>
    /\ args[c].project_name = "a/b" /\ args[c].connection_name = "c d"
    /\ args[c].table_key = Str("k1")
    /\ requests[c][1].kwargs.url = "/projects/a/b/connections/c d/tableSource"

====
